---- MODULE Spec2Model ----
(***************************************************************************)
(* The X Manga PR Bot dashboard: the thread composition of XDashboard      *)
(* (chunkArray, buildThreadForEntry), the day-entry fetch (fetchEntry) and *)
(* the per-image resolution of ImageItem (useEffect / loadImages).         *)
(*                                                                         *)
(* JavaScript values are modelled as follows.  null is the record Null.    *)
(* An array is a sequence; array positions in the code are 0-based, so     *)
(* arr[i] of the code is arr[i + 1] here.  A function that receives an     *)
(* array or an object receives a reference: such a function is modelled    *)
(* by an operator that returns both its result (field ret) and the         *)
(* argument as the call leaves it.                                         *)
(***************************************************************************)
EXTENDS Integers, Sequences, FiniteSets, TLC

VARIABLES
    selectedDay,    \* XDashboard state: the selected day
    entry,          \* XDashboard state: the day-entry, or Null
    loading,        \* XDashboard state: the loading flag
    error,          \* XDashboard state: Null or [message |-> ...]
    posts,          \* the thread computed by the last render of XDashboard
    fetches,        \* the fetchEntry invocations suspended at an await
    started,        \* the number of fetchEntry invocations so far
    slots,          \* the ImageItem instances, with their state
    requests,       \* the loadImages invocations suspended at an await
    posting         \* postToX: the script properties, the requests sent to
                    \* the posting endpoint, the outcome of the last call

vars == <<selectedDay, entry, loading, error, posts, fetches, started, slots, requests,
          posting>>

dashboard == <<selectedDay, entry, loading, error, fetches, started>>

----------------------------------------------------------------------------
(* Bounds of the model.                                                    *)

\* The longest images array of an entry given to the composer alone.
MaxImages == 9
\* The longest images array of an entry the entry API serves to the dashboard.
MaxShown == 1
\* The number of fetchEntry invocations of a run.
MaxFetchCalls == 2
\* The days of the sidebar are 1..MaxDay.
MaxDay == 2
\* The number of requests postToX sends in a run.
MaxPosts == 3

\* The size buildThreadForEntry passes to chunkArray.
ChunkSize == 4

Null == [null |-> TRUE]

Refs == {"a", "b"}
Texts == {"", "T"}
Days == 1..MaxDay

Min(m, n) == IF m < n THEN m ELSE n

SeqsUpTo(S, n) == UNION {[1..k -> S] : k \in 0..n}

\* A normalized day-entry with at most n images.
EntriesUpTo(n) == [images : SeqsUpTo(Refs, n), trailingText : Texts]

----------------------------------------------------------------------------
(* The composer: chunkArray and buildThreadForEntry.                       *)

\* arr.slice(start, end), start and end 0-based and non-negative.
slice(arr, start, end) ==
    [k \in 1..(Min(end, Len(arr)) - Min(start, Len(arr))) |-> arr[start + k]]

\* The for loop of chunkArray, at the test of its condition.
RECURSIVE chunkLoop(_, _, _, _)
chunkLoop(arr, size, i, out) ==
    IF i < Len(arr)
    THEN chunkLoop(arr, size, i + size, Append(out, slice(arr, i, i + size)))
    ELSE out

\* chunkArray with arr.slice(i, size): the end taken for a length.
RECURSIVE chunkLoopSliceLen(_, _, _, _)
chunkLoopSliceLen(arr, size, i, out) ==
    IF i < Len(arr)
    THEN chunkLoopSliceLen(arr, size, i + size, Append(out, slice(arr, i, size)))
    ELSE out

chunkArraySliceLen(arr, size) ==
    [ret |-> chunkLoopSliceLen(arr, size, 0, <<>>), arr |-> arr]

\* chunkArray with arr.slice(i, i + size + 1): the end taken as inclusive.
RECURSIVE chunkLoopInclusive(_, _, _, _)
chunkLoopInclusive(arr, size, i, out) ==
    IF i < Len(arr)
    THEN chunkLoopInclusive(arr, size, i + size,
                            Append(out, slice(arr, i, i + size + 1)))
    ELSE out

chunkArrayInclusive(arr, size) ==
    [ret |-> chunkLoopInclusive(arr, size, 0, <<>>), arr |-> arr]

\* chunkArray with the loop condition i <= arr.length.
RECURSIVE chunkLoopLe(_, _, _, _)
chunkLoopLe(arr, size, i, out) ==
    IF i <= Len(arr)
    THEN chunkLoopLe(arr, size, i + size, Append(out, slice(arr, i, i + size)))
    ELSE out

chunkArrayLe(arr, size) ==
    [ret |-> chunkLoopLe(arr, size, 0, <<>>), arr |-> arr]

\* chunkArray with out.push(arr.splice(0, size)), which empties arr.
RECURSIVE chunkLoopSplice(_, _, _)
chunkLoopSplice(arr, size, out) ==
    IF 0 < Len(arr)
    THEN chunkLoopSplice(slice(arr, size, Len(arr)), size,
                         Append(out, slice(arr, 0, size)))
    ELSE [ret |-> out, arr |-> arr]

chunkArraySplice(arr, size) == chunkLoopSplice(arr, size, <<>>)

chunkArray(arr, size) ==
    [ret |-> chunkLoop(arr, size, 0, <<>>), arr |-> arr]

\* buildThreadForEntry with total: chunks.length on the image posts.
buildThreadTotalChunks(entryData) ==
    IF entryData = Null
    THEN [ret |-> <<>>, entryData |-> entryData]
    ELSE LET c == chunkArray(entryData.images, ChunkSize)
             chunks == c.ret
             mapped == [k \in 1..Len(chunks) |->
                          [images |-> chunks[k],
                           text   |-> "",
                           index  |-> (k - 1) + 1,
                           total  |-> Len(chunks)]]
         IN  [ret |-> Append(mapped,
                             [images |-> <<>>,
                              text   |-> entryData.trailingText,
                              index  |-> Len(chunks) + 1,
                              total  |-> Len(chunks) + 1]),
              entryData |-> [entryData EXCEPT !.images = c.arr]]

\* buildThreadForEntry with the text of line 154 on the image posts.
buildThreadTextOnLastChunk(entryData) ==
    IF entryData = Null
    THEN [ret |-> <<>>, entryData |-> entryData]
    ELSE LET c == chunkArray(entryData.images, ChunkSize)
             chunks == c.ret
             mapped == [k \in 1..Len(chunks) |->
                          [images |-> chunks[k],
                           text   |-> IF k - 1 = Len(chunks) - 1
                                      THEN entryData.trailingText ELSE "",
                           index  |-> (k - 1) + 1,
                           total  |-> Len(chunks) + 1]]
         IN  [ret |-> Append(mapped,
                             [images |-> <<>>,
                              text   |-> entryData.trailingText,
                              index  |-> Len(chunks) + 1,
                              total  |-> Len(chunks) + 1]),
              entryData |-> [entryData EXCEPT !.images = c.arr]]

\* buildThreadForEntry without line 150, the images and the text read with
\* defaults: a null entry is composed like an empty one.
buildThreadNoNullTest(entryData) ==
    LET images == IF entryData = Null THEN <<>> ELSE entryData.images
        text == IF entryData = Null THEN "" ELSE entryData.trailingText
        c == chunkArray(images, ChunkSize)
        chunks == c.ret
        mapped == [k \in 1..Len(chunks) |->
                     [images |-> chunks[k],
                      text   |-> "",
                      index  |-> (k - 1) + 1,
                      total  |-> Len(chunks) + 1]]
    IN  [ret |-> Append(mapped,
                        [images |-> <<>>,
                         text   |-> text,
                         index  |-> Len(chunks) + 1,
                         total  |-> Len(chunks) + 1]),
         entryData |-> IF entryData = Null THEN entryData
                       ELSE [entryData EXCEPT !.images = c.arr]]

buildThreadForEntry(entryData) ==
    IF entryData = Null
    THEN [ret |-> <<>>, entryData |-> entryData]
    ELSE LET c == chunkArray(entryData.images, ChunkSize)
             chunks == c.ret
             mapped == [k \in 1..Len(chunks) |->
                          [images |-> chunks[k],
                           text   |-> "",
                           index  |-> (k - 1) + 1,
                           total  |-> Len(chunks) + 1]]
         IN  [ret |-> Append(mapped,
                             [images |-> <<>>,
                              text   |-> entryData.trailingText,
                              index  |-> Len(chunks) + 1,
                              total  |-> Len(chunks) + 1]),
              entryData |-> [entryData EXCEPT !.images = c.arr]]

----------------------------------------------------------------------------
(* The view: the render of XDashboard, TweetCard and ImageGrid, and the    *)
(* mounting, re-use and unmounting of the ImageItem instances under it.    *)

\* view with the test of entry before the test of error.
viewEntryFirst(l, er, en) ==
    IF l THEN "loading"
    ELSE IF en # Null THEN "preview"
    ELSE IF er # Null THEN "error"
    ELSE "empty"

\* The branch of the conditional XDashboard renders in its main pane.
view(l, er, en) ==
    IF l THEN "loading"
    ELSE IF er # Null THEN "error"
    ELSE IF en = Null THEN "empty"
    ELSE "preview"

\* The ImageItem elements ImageGrid renders for the images of post p: one
\* per image, at most 4, each with its src, its position and its layout.
ImageGrid(images, p) ==
    {[pos |-> <<p, i>>, src |-> images[i + 1], layout |-> Len(images)] :
        i \in 0..(Min(Len(images), 4) - 1)}

\* The ImageItem elements of the thread preview: TweetCard renders an
\* ImageGrid only for a post that has images.
TweetCards(ps) ==
    UNION {IF Len(ps[p].images) # 0 THEN ImageGrid(ps[p].images, p) ELSE {} :
              p \in DOMAIN ps}

\* An unmounted instance is kept for as long as a loadImages invocation of
\* it, whose closure holds its setters, is suspended, and through the step
\* in which the last such invocation ends; the unmounted instances that no
\* invocation holds are dropped.
Collect(old, reqs) ==
    {s \in old : s.mounted \/ \E r \in reqs : r.inst = s.inst /\ r.pos = s.pos}

\* An instance is re-used for an element at the same position of the same
\* kind of child list: the lone unkeyed ImageItem of a 1-image grid, or a
\* keyed ImageItem of a 2..4-image grid.
SameSlot(s, w) == s.pos = w.pos /\ ((s.layout = 1) <=> (w.layout = 1))

Kept(s, wanted) == s.mounted /\ \E w \in wanted : SameSlot(s, w)

ItemFor(s, wanted) == CHOOSE w \in wanted : SameSlot(s, w)

\* The elements for which the effect of ImageItem runs: those newly mounted
\* and those re-used with another src.
EffectRuns(old, wanted) ==
    {w \in wanted : \A s \in old : (s.mounted /\ SameSlot(s, w)) => s.src # w.src}

\* CleanupRuns of an effect without [src]: the cleanup runs on unmount only.
CleanupRunsOnUnmount(s, wanted) ==
    s.mounted /\ ~Kept(s, wanted)

\* The cleanup of the effect of instance s runs: s is unmounted, or re-used
\* with another src.
CleanupRuns(s, wanted) ==
    s.mounted /\ (Kept(s, wanted) => ItemFor(s, wanted).src # s.src)

\* Instances at one position, and the invocations of one instance, are told
\* apart by a number: the least one not in use.
Fresh(used) ==
    CHOOSE n \in 1..(Cardinality(used) + 1) :
        n \notin used /\ \A m \in 1..(n - 1) : m \in used

\* The instance an element is rendered by: the one re-used, or a new one.
InstOf(old, w) ==
    IF \E s \in old : s.mounted /\ SameSlot(s, w)
    THEN (CHOOSE s \in old : s.mounted /\ SameSlot(s, w)).inst
    ELSE Fresh({s.inst : s \in {x \in old : x.pos = w.pos}})

\* useState("") and useState(true) of a new ImageItem.
NewSlot(old, w) ==
    [inst |-> InstOf(old, w), pos |-> w.pos, layout |-> w.layout, src |-> w.src,
     image |-> "", loading |-> TRUE, mounted |-> TRUE]

ReconcileSlots(old, wanted) ==
    {IF ~s.mounted THEN s
     ELSE IF Kept(s, wanted)
          THEN [s EXCEPT !.src = ItemFor(s, wanted).src,
                         !.layout = ItemFor(s, wanted).layout]
          ELSE [s EXCEPT !.mounted = FALSE] : s \in old}
    \cup {NewSlot(old, w) :
             w \in {x \in wanted : \A s \in old : ~(s.mounted /\ SameSlot(s, x))}}

\* The body of the effect: isMounted = true and loadImages() up to its
\* awaits.  Nothing runs between await fetch(...) and await res.json(), so
\* an invocation suspended at either is one request in flight.
StartLoad(old, reqs, w) ==
    [id |-> Fresh({r.id : r \in {x \in reqs : x.inst = InstOf(old, w) /\ x.pos = w.pos}}),
     inst |-> InstOf(old, w), pos |-> w.pos, src |-> w.src, isMounted |-> TRUE]

\* The cleanup: isMounted = false.
Cleanup(r) == [r EXCEPT !.isMounted = FALSE]

ReconcileRequests(old, reqs, wanted) ==
    {IF r.isMounted
        /\ \E s \in old : s.inst = r.inst /\ s.pos = r.pos /\ CleanupRuns(s, wanted)
     THEN Cleanup(r)
     ELSE r : r \in reqs}
    \cup {StartLoad(old, reqs, w) : w \in EffectRuns(old, wanted)}

\* A render of XDashboard with state (en, l, er), committed: the thread is
\* recomputed and the ImageItem instances follow the rendered branch.
Commit(en, l, er) ==
    LET b == buildThreadForEntry(en)
        old == Collect(slots, requests)
        wanted == IF view(l, er, b.entryData) = "preview" THEN TweetCards(b.ret) ELSE {}
    IN  /\ entry' = b.entryData
        /\ loading' = l
        /\ error' = er
        /\ posts' = b.ret
        /\ requests' = ReconcileRequests(old, requests, wanted)
        /\ slots' = Collect(ReconcileSlots(old, wanted), requests')
        /\ UNCHANGED posting

\* XDashboard renders again with its state as it is.
Render ==
    /\ Commit(entry, loading, error)
    /\ UNCHANGED <<selectedDay, fetches, started>>

----------------------------------------------------------------------------
(* The day-entry fetch: fetchEntry.                                        *)

\* The bodies the entry API may answer with: the entry at the top level or
\* under an entry key, with or without images and trailingText.
EntryShapes ==
    [images : SeqsUpTo(Refs, MaxShown), trailingText : {"T"}]
    \cup {[images |-> <<>>], [trailingText |-> "T"], [meta |-> [title |-> "t"]]}

JsonBodies == EntryShapes \cup [entry : EntryShapes]

HttpErrors == {404}

\* e.message of what fetchEntry catches.
FailureMessages ==
    {"Failed to fetch", "Unexpected end of JSON input"}
    \cup {"HTTP " \o ToString(status) : status \in HttpErrors}

\* normalize without json.entry: the defaults are set on the response body
\* itself, which is stored with its entry key.
normalizeBody(json) ==
    LET images == IF "images" \in DOMAIN json THEN json.images ELSE <<>>
        trailingText == IF "trailingText" \in DOMAIN json
                        THEN json.trailingText ELSE ""
    IN  IF "entry" \in DOMAIN json
        THEN [entry |-> json.entry, images |-> images, trailingText |-> trailingText]
        ELSE [images |-> images, trailingText |-> trailingText]

\* Lines 132-135 of fetchEntry.
normalize(json) ==
    LET entryData == IF "entry" \in DOMAIN json THEN json.entry ELSE json
        images == IF "images" \in DOMAIN entryData THEN entryData.images ELSE <<>>
        trailingText == IF "trailingText" \in DOMAIN entryData
                        THEN entryData.trailingText ELSE ""
    IN  [images |-> images, trailingText |-> trailingText]

\* fetchEntry without setEntry(null).
fetchEntryKeepsEntry(day) ==
    /\ started < MaxFetchCalls
    /\ started' = started + 1
    /\ fetches' = fetches \cup {[id |-> started + 1]}
    /\ Commit(entry, TRUE, Null)

\* fetchEntry(day) up to its awaits.  The only code between await fetch(...)
\* and await res.json() is the test of res.ok, which reads and writes no
\* state, so an invocation suspended at either is one fetch in flight.  The
\* entry API answers as it likes, whatever the day asked for: the invocation
\* is known by its number.
fetchEntry(day) ==
    /\ started < MaxFetchCalls
    /\ started' = started + 1
    /\ fetches' = fetches \cup {[id |-> started + 1]}
    /\ Commit(Null, TRUE, Null)

\* A day button of the sidebar is clicked: setSelectedDay(day), and the
\* effect on [selectedDay] calls fetchEntry when the day has changed.
SelectDay(day) ==
    /\ day # selectedDay
    /\ selectedDay' = day
    /\ fetchEntry(day)

\* The refresh button.
Refresh ==
    /\ fetchEntry(selectedDay)
    /\ UNCHANGED selectedDay

\* The catch and finally blocks of fetchEntry.
Catch(f, message) ==
    /\ fetches' = fetches \ {f}
    /\ Commit(entry, FALSE, [message |-> message])
    /\ UNCHANGED <<selectedDay, started>>

\* await fetch(...) rejects, or resolves with a response that is not ok.
FetchFailed(f) ==
    \/ Catch(f, "Failed to fetch")
    \/ \E status \in HttpErrors : Catch(f, "HTTP " \o ToString(status))

\* await res.json() rejects.
JsonFailed(f) ==
    Catch(f, "Unexpected end of JSON input")

\* await res.json() resolves: normalize, setEntry, and the finally block.
JsonResolved(f, json) ==
    /\ fetches' = fetches \ {f}
    /\ Commit(normalize(json), FALSE, error)
    /\ UNCHANGED <<selectedDay, started>>

----------------------------------------------------------------------------
(* The image resolution: loadImages of ImageItem.                          *)

MimeTypes == {"image/png"}

\* The payload the image proxy serves for a reference.
Base64Of(src) == IF src = "a" THEN "QQ==" ELSE "Qg=="

ProxyBodies(src) == [mimeType : MimeTypes, base64 : {Base64Of(src)}]

\* base64Image with the MIME type left out.
base64ImageNoMime(json) == "data:;base64," \o json.base64

base64Image(json) == "data:" \o json.mimeType \o ";base64," \o json.base64

\* Either await rejects: the catch block logs and returns.
ImageFailed(r) ==
    /\ requests' = requests \ {r}
    /\ slots' = Collect(slots, requests)
    /\ UNCHANGED <<dashboard, posts, posting>>

\* SetLoaded writing every instance that shows the reference of r, as a
\* cache shared by the instances would.
SetLoadedShared(r, image) ==
    {IF s.src = r.src
     THEN [s EXCEPT !.image = image, !.loading = FALSE]
     ELSE s : s \in Collect(slots, requests)}

\* setImage(image) and setLoading(false) on the instance of request r.
SetLoaded(r, image) ==
    {IF s.inst = r.inst /\ s.pos = r.pos
     THEN [s EXCEPT !.image = image, !.loading = FALSE]
     ELSE s : s \in Collect(slots, requests)}

\* Apply without the test of isMounted.
ApplyUnguarded(r, image) == SetLoaded(r, image)

\* Lines 18-21 of loadImages.
Apply(r, image) ==
    IF r.isMounted THEN SetLoaded(r, image) ELSE Collect(slots, requests)

\* await fetch(...) and await res.json() have resolved.
ImageDecoded(r, json) ==
    /\ slots' = Apply(r, base64Image(json))
    /\ requests' = requests \ {r}
    /\ UNCHANGED <<dashboard, posts, posting>>

----------------------------------------------------------------------------
(* The posting collaborator: postToX.                                      *)

\* The script properties: with no bearerToken, with an empty one, with one.
PropertyStores ==
    {[other |-> "x"], [bearerToken |-> ""], [bearerToken |-> "t1"],
     [bearerToken |-> "t2"]}

\* What the posting API answers.
PostResponses == [code : {200, 401}, body : {"{\"id\":1}", "{\"id\":2}"}]

\* !bearerToken is false: the property is set, and not to "".
HasToken(props) == "bearerToken" \in DOMAIN props /\ props.bearerToken # ""

\* 'Bearer ' + bearerToken, getProperty giving null for a missing property.
Authorization(props) ==
    "Bearer " \o (IF "bearerToken" \in DOMAIN props THEN props.bearerToken ELSE "null")

\* The request of lines 280-295.
PostRequest(props) ==
    [url |-> "https://api.twitter.com/2/tweets", method |-> "post",
     authorization |-> Authorization(props), payload |-> [text |-> "Test"]]

Thrown(message) == [kind |-> "error", message |-> message]

Returned(value) == [kind |-> "return", value |-> value]

MissingCredential == Thrown("bearerToken is not set in script properties.")

\* Lines 295-305: UrlFetchApp.fetch, which is synchronous, and the outcome.
SendPost(response) ==
    /\ Len(posting.sent) < MaxPosts
    /\ posting' = [posting EXCEPT
                      !.sent = Append(@, PostRequest(posting.properties)),
                      !.outcome = IF response.code = 200
                                  THEN Returned(response.body)
                                  ELSE Thrown("Failed to post entry to X: "
                                              \o response.body)]

\* postToX with the test of bearerToken left out.
postToXNoTest(e, response) ==
    /\ SendPost(response)
    /\ UNCHANGED <<dashboard, posts, slots, requests>>

\* postToX(entry), answered with response if it sends its request.
postToX(e, response) ==
    /\ IF ~HasToken(posting.properties)
       THEN posting' = [posting EXCEPT !.outcome = MissingCredential]
       ELSE SendPost(response)
    /\ UNCHANGED <<dashboard, posts, slots, requests>>

\* A script property is set or deleted.
SetProperties(props) ==
    /\ posting' = [posting EXCEPT !.properties = props]
    /\ UNCHANGED <<dashboard, posts, slots, requests>>

----------------------------------------------------------------------------
(* The dashboard.                                                          *)

\* After the first render of XDashboard and its effect: fetchEntry has been
\* called for the initial selectedDay.
Init ==
    /\ selectedDay \in Days
    /\ entry = Null
    /\ loading = TRUE
    /\ error = Null
    /\ posts = <<>>
    /\ fetches = {[id |-> 1]}
    /\ started = 1
    /\ slots = {}
    /\ requests = {}
    /\ posting = [properties |-> [other |-> "x"], sent |-> <<>>,
                  outcome |-> [kind |-> "none"]]

Next ==
    \/ \E day \in Days : SelectDay(day)
    \/ Refresh
    \/ Render
    \/ \E f \in fetches : FetchFailed(f)
    \/ \E f \in fetches : JsonFailed(f)
    \/ \E f \in fetches : \E json \in JsonBodies : JsonResolved(f, json)
    \/ \E r \in requests : ImageFailed(r)
    \/ \E r \in requests : \E json \in ProxyBodies(r.src) : ImageDecoded(r, json)

Spec == Init /\ [][Next]_vars

----------------------------------------------------------------------------
(* The composer alone: the first fetchEntry of the dashboard is answered   *)
(* with an entry of up to MaxImages images, and XDashboard renders.        *)

InitCompose == Init

NextCompose ==
    \/ \E f \in fetches : \E json \in EntriesUpTo(MaxImages) : JsonResolved(f, json)
    \/ Render

SpecCompose == InitCompose /\ [][NextCompose]_vars

----------------------------------------------------------------------------
(* A grid of two images: the entry API answers with entries of two images, *)
(* the same reference twice included, while the refresh button is used.    *)

TwoImageEntries == [images : [1..2 -> Refs], trailingText : {"T"}]

InitGrid == Init

NextGrid ==
    \/ Refresh
    \/ \E f \in fetches : \E json \in TwoImageEntries : JsonResolved(f, json)
    \/ \E r \in requests : ImageFailed(r)
    \/ \E r \in requests : \E json \in ProxyBodies(r.src) : ImageDecoded(r, json)

SpecGrid == InitGrid /\ [][NextGrid]_vars

----------------------------------------------------------------------------
(* The posting collaborator alone: postToX is called, on any entry, under  *)
(* script properties that are edited between the calls.                    *)

InitPost == Init

NextPost ==
    \/ \E props \in PropertyStores : SetProperties(props)
    \/ \E e \in EntriesUpTo(MaxShown) : \E response \in PostResponses :
          postToX(e, response)

SpecPost == InitPost /\ [][NextPost]_vars

----------------------------------------------------------------------------
(* Properties of the composer, under SpecCompose.                          *)

RECURSIVE Concat(_)
Concat(ps) == IF ps = <<>> THEN <<>> ELSE Head(ps).images \o Concat(Tail(ps))

ImageUnits(ps) == SelectSeq(ps, LAMBDA u : Len(u.images) > 0)

Ceil4(n) == (n + ChunkSize - 1) \div ChunkSize

HasDuplicate(q) == \E i, j \in DOMAIN q : i # j /\ q[i] = q[j]

\* C1: for a non-null entry, the images of the units of the thread,
\* concatenated in output order, are exactly entry.images: none dropped,
\* duplicated or reordered, duplicates in entry.images included.
ComposePreservesImages ==
    entry # Null => Concat(posts) = entry.images

ComposePreservesImagesWitness ==
    /\ entry # Null
    /\ Len(entry.images) = 6
    /\ HasDuplicate(entry.images)
    /\ entry.images[1] # entry.images[5]
    /\ Len(posts) = 3

\* C3: for a non-null entry with n images the thread has exactly
\* C = ceil(n / 4) image-bearing units, the first C units of the thread; each
\* holds 1..4 images and each but the last of them holds exactly 4.
ComposeChunkSizes ==
    entry # Null =>
        LET n == Len(entry.images)
            C == Ceil4(n)
        IN  /\ Len(ImageUnits(posts)) = C
            /\ Len(posts) >= C
            /\ \A k \in 1..C :
                  /\ Len(posts[k].images) \in 1..ChunkSize
                  /\ k < C => Len(posts[k].images) = ChunkSize
            /\ (n > 0 /\ n % ChunkSize = 0) =>
                  \A k \in 1..C : Len(posts[k].images) = ChunkSize

ComposeChunkSizesWitness ==
    /\ entry # Null
    /\ Len(entry.images) = 8
    /\ Len(ImageUnits(posts)) = 2
    /\ Len(posts[2].images) = 4

\* C4: for a non-null entry every unit's total is the length of the thread,
\* which is C + 1, and the unit at position k has index k.
ComposeIndexTotal ==
    entry # Null =>
        /\ Len(posts) = Ceil4(Len(entry.images)) + 1
        /\ \A k \in 1..Len(posts) :
              /\ posts[k].total = Len(posts)
              /\ posts[k].index = k

ComposeIndexTotalWitness ==
    /\ entry # Null
    /\ Len(entry.images) = 5
    /\ Len(posts) = 3
    /\ posts[2].index = 2
    /\ posts[2].total = 3

\* C5: for a non-null entry the last unit of the thread has no images and
\* the text entry.trailingText, and no other unit is without images; with no
\* images at all the thread is the single unit {[], trailingText, 1, 1}.
ComposeTrailingUnit ==
    entry # Null =>
        /\ Len(posts) >= 1
        /\ posts[Len(posts)].images = <<>>
        /\ posts[Len(posts)].text = entry.trailingText
        /\ \A k \in 1..(Len(posts) - 1) : posts[k].images # <<>>
        /\ entry.images = <<>> =>
              posts = <<[images |-> <<>>, text |-> entry.trailingText,
                         index |-> 1, total |-> 1]>>

ComposeTrailingUnitWitness ==
    /\ entry # Null
    /\ entry.trailingText = ""
    /\ Len(entry.images) = 4
    /\ Len(posts) = 2
    /\ posts[2].text = ""

\* C6: every unit of the thread that has images has the text "", whatever
\* entry.trailingText is.
ComposeImageUnitsNoText ==
    entry # Null =>
        \A k \in 1..Len(posts) : posts[k].images # <<>> => posts[k].text = ""

ComposeImageUnitsNoTextWitness ==
    /\ entry # Null
    /\ entry.trailingText = "T"
    /\ Len(posts) = 3
    /\ posts[2].images # <<>>
    /\ posts[3].text = "T"

\* C10: a render, which calls buildThreadForEntry on the entry again, returns
\* the same thread as the call before it and leaves the entry, with its images
\* and trailingText, and the rest of the dashboard state as they were.
ComposePure ==
    [][Render =>
          /\ posts' = posts
          /\ entry' = entry
          /\ UNCHANGED <<selectedDay, loading, error, fetches, started>>]_vars

ComposePureWitness ==
    /\ entry # Null
    /\ Len(entry.images) = 9
    /\ posts = buildThreadForEntry(entry).ret
    /\ Len(posts) = 4

----------------------------------------------------------------------------
(* Properties of the dashboard and of the image slots, under Spec.         *)

\* The instance the invocation r belongs to.
SlotOf(r, ss) == {s \in ss : s.inst = r.inst /\ s.pos = r.pos}

\* The invocations in flight that the effect now in force of s started.
LiveRequests(s, reqs) ==
    {r \in reqs : r.inst = s.inst /\ r.pos = s.pos /\ r.isMounted /\ r.src = s.src}

\* The instance of r is unmounted.
TornDown(r) == \A s \in SlotOf(r, slots) : ~s.mounted

\* The invocation r ends in this step.
Completes(r) ==
    \A q \in requests' : ~(q.id = r.id /\ q.inst = r.inst /\ q.pos = r.pos)

\* The post units on screen.
Displayed == IF view(loading, error, entry) = "preview" THEN posts ELSE <<>>

\* C2: when the invocation of an unmounted slot ends, with a response or
\* with a failure, the slot's image and loading flag are as before, and so
\* are every mounted slot and the dashboard state.
TornDownResolutionWritesNothing ==
    [][\A r \in requests :
          (TornDown(r) /\ Completes(r)) =>
              /\ \A s \in slots : (s.mounted \/ s \in SlotOf(r, slots)) => s \in slots'
              /\ UNCHANGED <<dashboard, posts>>]_vars

\* An unmounted slot, still pending, whose last invocation has just ended.
TornDownResolutionWritesNothingWitness ==
    \E s \in slots :
        /\ ~s.mounted
        /\ s.loading
        /\ s.image = ""
        /\ \A r \in requests : ~(r.inst = s.inst /\ r.pos = s.pos)

\* C7: a mounted slot whose request for its current reference is in flight
\* has its loading flag true.
PendingWhileRequestInFlight ==
    \A s \in slots :
        (s.mounted /\ LiveRequests(s, requests) # {}) => s.loading

\* The request of the effect now in force of s has failed: it is no longer
\* in flight and the slot does not hold the image of its reference.
Failed(s, reqs) ==
    /\ s.mounted
    /\ LiveRequests(s, reqs) = {}
    /\ s.image \notin {base64Image(json) : json \in ProxyBodies(s.src)}

\* C8: the failure of a slot's request is caught in the slot: the step
\* issues no request and leaves the dashboard state and every slot as they
\* were, and a slot whose request has failed is pending for as long as it
\* is mounted with that reference.
ImageFailureIsolated ==
    [][/\ \A r \in requests :
             ImageFailed(r) =>
                 /\ requests' = requests \ {r}
                 /\ \A s \in slots : s.mounted => s \in slots'
                 /\ UNCHANGED <<dashboard, posts>>
       /\ \A s \in slots' : Failed(s, requests') => s.loading]_vars

\* C9: when a day-entry fetch fails, the error is that failure's message
\* and the loading flag is false; and whenever an error is set and the
\* loading flag is false, no post unit and no image slot is on screen.
FetchFailureShown ==
    [][/\ \A f \in fetches : \A m \in FailureMessages :
             Catch(f, m) =>
                 /\ error' = [message |-> m]
                 /\ ~loading'
                 /\ view(loading', error', entry') = "error"
       /\ (error' # Null /\ ~loading') =>
             /\ Displayed' = <<>>
             /\ \A s \in slots' : ~s.mounted]_vars

\* A fetch has failed with a non-success status while a later one brought
\* an entry: the error is shown, not the entry.
FetchFailureShownWitness ==
    /\ error = [message |-> "HTTP 404"]
    /\ ~loading
    /\ entry # Null
    /\ Len(posts) = 2
    /\ Displayed = <<>>

\* C11: buildThreadForEntry gives the empty thread for a null entry:
\* whenever the dashboard's entry is null (at the start, while a fetch is
\* pending, after a failed fetch) the thread has no post unit.
NullEntryEmptyThread ==
    entry = Null => posts = <<>>

\* A fetch has failed: the entry is null, with the error shown.
NullEntryEmptyThreadWitness ==
    /\ entry = Null
    /\ ~loading
    /\ error # Null
    /\ fetches = {}
    /\ posts = <<>>

----------------------------------------------------------------------------
(* Properties of the posting collaborator, under SpecPost.                 *)

\* C12: a call of postToX while the bearerToken property is not set ends in
\* the missing-credential error and sends no request to the posting endpoint.
MissingCredentialBeforeNetwork ==
    [][(~HasToken(posting.properties) /\ posting'.properties = posting.properties) =>
          /\ posting'.sent = posting.sent
          /\ posting'.outcome = MissingCredential]_vars

\* A call has posted, the token was then deleted, and the next call failed
\* without a request of its own.
MissingCredentialBeforeNetworkWitness ==
    /\ ~HasToken(posting.properties)
    /\ posting.outcome = MissingCredential
    /\ Len(posting.sent) = 1

----------------------------------------------------------------------------
(* Properties of the dashboard, under Spec (continued).                    *)

\* The data URI of a MIME type and a base64 payload.
DataUri(mimeType, payload) == "data:" \o mimeType \o ";base64," \o payload

\* The invocations of slot s.
RequestsOf(s, reqs) == {r \in reqs : r.inst = s.inst /\ r.pos = s.pos}

\* The slot s as it is after the step, if it is still there.
After(s) == {t \in slots' : t.inst = s.inst /\ t.pos = s.pos}

\* C13: a mounted slot goes from pending to ready, and only so: it becomes
\* ready only in a step in which an invocation it started while live, and
\* whose liveness flag is still set, ends with a response, and its image is
\* then the data URI data:<mimeType>;base64,<payload> of that response; a
\* ready slot is never pending again; and as long as no invocation of the
\* slot ends, its image and its loading flag stay as they are.
ImageLifecycle ==
    [][\A s \in slots : \A t \in After(s) :
          s.mounted =>
              /\ ~s.loading => ~t.loading
              /\ (s.loading /\ ~t.loading) =>
                     \E r \in RequestsOf(s, requests) :
                         /\ r.isMounted
                         /\ Completes(r)
                         /\ \E m \in MimeTypes :
                                t.image = DataUri(m, Base64Of(r.src))
              /\ (\A r \in RequestsOf(s, requests) : ~Completes(r)) =>
                     (t.image = s.image /\ t.loading = s.loading)]_vars

\* A mounted slot is ready, with the data URI of its reference.
ImageLifecycleWitness ==
    \E s \in slots :
        /\ s.mounted
        /\ ~s.loading
        /\ RequestsOf(s, requests) = {}
        /\ s.image = DataUri("image/png", Base64Of(s.src))

\* The fetchEntry invocation f ends in this step.
FetchCompletes(f) == f \in fetches /\ f \notin fetches'

\* The fetchEntry invocation started last has ended.
LatestFetchDone == \A f \in fetches : f.id # started

\* C14: the result shown is that of the fetchEntry invocation started last:
\* once that invocation has ended, the late answer (response or failure) of
\* an invocation started earlier leaves entry and error as they are.
LatestFetchWins ==
    [][\A f \in fetches :
          (FetchCompletes(f) /\ f.id < started /\ LatestFetchDone) =>
              UNCHANGED <<entry, error>>]_vars

\* The mounted slots.
Mounted(ss) == {s \in ss : s.mounted}

\* C15: a call of fetchEntry sets entry to null, loading to true and error
\* to null as its request is issued, so that no slot is mounted after it;
\* the image requests then in flight stay in flight, their liveness flags
\* cleared, and when one of them ends later, with a response or a failure,
\* the mounted slots and the dashboard state are as before.
FetchEntryTearsDown ==
    [][/\ started' # started =>
             /\ entry' = Null /\ loading' = TRUE /\ error' = Null
             /\ fetches' = fetches \cup {[id |-> started']}
             /\ Mounted(slots') = {}
             /\ requests' = {Cleanup(r) : r \in requests}
       /\ \A r \in requests :
             (TornDown(r) /\ Completes(r)) =>
                 /\ Mounted(slots') = Mounted(slots)
                 /\ Displayed' = Displayed
                 /\ UNCHANGED dashboard]_vars

\* fetchEntry was called while an image was shown and its request was in
\* flight: the slot is unmounted, the request still in flight.
FetchEntryTearsDownWitness ==
    /\ loading
    /\ entry = Null
    /\ started > 1
    /\ \E s \in slots : \E r \in RequestsOf(s, requests) :
           ~s.mounted /\ ~r.isMounted /\ r.src = s.src

----------------------------------------------------------------------------
(* Properties of the image grid, under SpecGrid.                           *)

\* The invocations of slot t started in this step.
StartedFor(t) ==
    {q \in RequestsOf(t, requests') :
        \A r \in requests : ~(r.id = q.id /\ r.inst = q.inst /\ r.pos = q.pos)}

\* The slot t was mounted before the step, with the reference it has now.
SameReference(t) ==
    \E s \in Mounted(slots) : s.inst = t.inst /\ s.pos = t.pos /\ s.src = t.src

\* The liveness flag of invocation r is cleared in this step.
TearsDown(r) == r.isMounted /\ Cleanup(r) \in requests'

\* C16: the slots resolve independently.  A mounted slot starts exactly one
\* invocation, for its reference, in the step in which it is given that
\* reference, and none in any other step, whatever the other slots hold; and
\* a step in which an invocation of one slot ends (response or failure) or
\* is torn down leaves the image and the loading flag of every other slot
\* as they are.
SlotsIndependent ==
    [][/\ \A t \in Mounted(slots') :
             IF SameReference(t)
             THEN StartedFor(t) = {}
             ELSE /\ Cardinality(StartedFor(t)) = 1
                  /\ \A q \in StartedFor(t) : q.src = t.src /\ q.isMounted
       /\ \A r \in requests :
             (Completes(r) \/ TearsDown(r)) =>
                 \A s \in slots \ SlotOf(r, slots) : \A t \in After(s) :
                     t.image = s.image /\ t.loading = s.loading]_vars

\* Two mounted slots hold the same reference; the second is ready after a
\* request of its own, the first still pending with its own request in
\* flight.
SlotsIndependentWitness ==
    \E s1, s2 \in Mounted(slots) :
        /\ s1.pos[2] < s2.pos[2]
        /\ s1.src = s2.src
        /\ s1.loading /\ LiveRequests(s1, requests) # {}
        /\ ~s2.loading /\ RequestsOf(s2, requests) = {}
        /\ s2.image = DataUri("image/png", Base64Of(s2.src))

----------------------------------------------------------------------------
(* Properties of the dashboard, under Spec (continued).                    *)

\* C17: loading is true whenever a fetchEntry invocation is in flight, also
\* when several overlap.
LoadingWhileFetching ==
    fetches # {} => loading

\* C18: when the reference of a mounted slot changes, the liveness flag of
\* every invocation the slot has in flight is cleared in that step, the one
\* started for the new reference being the only live one; so the live
\* invocations of a mounted slot are for its reference, and whenever the
\* image of a mounted slot changes, it becomes the data URI of a response
\* for the reference the slot holds.
ReferenceChangeDropsOldResponse ==
    [][\A s \in Mounted(slots) :
          /\ \A r \in RequestsOf(s, requests) : r.isMounted => r.src = s.src
          /\ \A t \in After(s) :
                /\ (t.mounted /\ t.src # s.src) =>
                       /\ \A r \in RequestsOf(s, requests) :
                              \E q \in requests' : q = Cleanup(r)
                       /\ \A q \in RequestsOf(t, requests') :
                              q.isMounted <=> q \in StartedFor(t)
                       /\ \A q \in StartedFor(t) : q.src = t.src
                /\ t.image # s.image =>
                       \E m \in MimeTypes : t.image = DataUri(m, Base64Of(t.src))]_vars

\* The reference of a mounted slot has changed while its request was in
\* flight; the response for the new reference has been applied, the request
\* for the old one is still in flight.
ReferenceChangeDropsOldResponseWitness ==
    \E s \in Mounted(slots) : \E r \in RequestsOf(s, requests) :
        /\ ~r.isMounted
        /\ r.src # s.src
        /\ LiveRequests(s, requests) = {}
        /\ s.image = DataUri("image/png", Base64Of(s.src))

\* C19: a non-null entry is an entry: it has exactly the fields the composer
\* reads, images a sequence of references and trailingText a string, whether
\* the response had them or not and whether it held the entry at the top
\* level or under an entry key.
EntryNormalized ==
    entry # Null =>
        /\ DOMAIN entry = {"images", "trailingText"}
        /\ entry.images \in SeqsUpTo(Refs, MaxShown)
        /\ entry.trailingText \in Texts

\* A response without images and without trailingText has been stored.
EntryNormalizedWitness ==
    /\ entry = [images |-> <<>>, trailingText |-> ""]
    /\ posts = <<[images |-> <<>>, text |-> "", index |-> 1, total |-> 1]>>
    /\ ~loading
    /\ error = Null

====
